---- MODULE Spec2Model ----
(***************************************************************************)
(* Model of pkg/kubectl/resource/selector.go: the Selector visitor, which  *)
(* lists a collection chunk by chunk (Visit), opens a watch (Watch) and    *)
(* exposes its RESTMapping (ResourceMapping).                              *)
(*                                                                         *)
(* A goroutine calling Visit is a process c \in Calls.  Its position in    *)
(* the loop of Visit is pc[c]:                                             *)
(*   "idle"      not inside Visit                                          *)
(*   "list"      at line 56, about to call Helper.List                     *)
(*   "listed"    at line 67, List has returned (list, err)                 *)
(*   "rewrite"   at lines 75/77, the new message is formatted from the one *)
(*               read, the assignment to se.ErrStatus.Message is next      *)
(*   "fn"        at line 99, inside the VisitorFunc                        *)
(*   "returned"  Visit has returned ret[c] to its caller                   *)
(* watched[c] is the record of the caller's last call of Watch, mapped[c]  *)
(* what its last call of ResourceMapping returned.                         *)
(* Errors are Go interface values: nil, a reference to an error object of  *)
(* the heap (the collaborator's or the callback's), or a fresh             *)
(* *errors.errorString made by fmt.Errorf.                                 *)
(***************************************************************************)
EXTENDS Integers, Sequences, FiniteSets, TLC

VARIABLES watched, mapped, env, callers, r, heap, pc, continueToken, list, err, nextContinueToken,
          info, newMessage, ret, fetches, resps, cbs, nvisits, results

vars == <<watched, mapped, env, callers, r, heap, pc, continueToken, list, err, nextContinueToken,
          info, newMessage, ret, fetches, resps, cbs, nvisits, results>>

(***************************************************************************)
(* Bounds of the model.                                                    *)
(***************************************************************************)
\* List calls one Visit invocation may issue before the model stops it
MaxPages == 3
\* Visit invocations one caller makes, one after the other
MaxVisits == 2
\* The same two limits for the caller that also calls Watch and
\* ResourceMapping
ApiMaxPages == 2
ApiMaxVisits == 1
\* The same two limits for each of two callers running at the same time
ConcMaxPages == 2
ConcMaxVisits == 1
\* The same two limits where termination is checked
LiveMaxPages == 3
LiveMaxVisits == 1

\* The goroutines that may call Visit on the one Selector; callers is the set
\* of those the program runs.
Calls == {"a", "b"}

(***************************************************************************)
(* Strings.  fmt's %q verb is strconv.Quote: the text between double       *)
(* quotes, with every double quote and backslash escaped by a backslash.   *)
(***************************************************************************)
RECURSIVE Escape(_)
Escape(s) ==
    IF Len(s) = 0 THEN ""
    ELSE LET ch == SubSeq(s, 1, 1)
             rest == Escape(SubSeq(s, 2, Len(s)))
         IN  IF ch = "\"" \/ ch = "\\" THEN "\\" \o ch \o rest
                                       ELSE ch \o rest

Quote(s) == "\"" \o Escape(s) \o "\""

\* strings.Contains
Contains(s, sub) ==
    \E i \in 1..(Len(s) - Len(sub) + 1) : SubSeq(s, i, i + Len(sub) - 1) = sub

(***************************************************************************)
(* Error values.                                                           *)
(***************************************************************************)
NilErr == [tag |-> "nil", id |-> 0, text |-> ""]
ObjErr(i) == [tag |-> "obj", id |-> i, text |-> ""]
\* fmt.Errorf: a new immutable error whose Error() is the formatted text
Errorf(t) == [tag |-> "errorString", id |-> 0, text |-> t]

\* The error objects the collaborator and the callback own.  An object is a
\* *errors.StatusError (isStatusError, message = ErrStatus.Message) or some
\* other error type (message = its Error() text).
ErrObjects ==
    << [reason |-> "Expired",    isStatusError |-> TRUE,  message |-> "too old",   code |-> 410, details |-> "d1"],
       [reason |-> "BadRequest", isStatusError |-> TRUE,  message |-> "bad field", code |-> 400, details |-> "d2"],
       [reason |-> "NotFound",   isStatusError |-> TRUE,  message |-> "no kind",   code |-> 404, details |-> "d3"],
       [reason |-> "Timeout",    isStatusError |-> TRUE,  message |-> "timeout",   code |-> 504, details |-> "d4"],
       [reason |-> "Expired",    isStatusError |-> FALSE, message |-> "gone",      code |-> 0,   details |-> ""],
       [reason |-> "BadRequest", isStatusError |-> FALSE, message |-> "bad",       code |-> 0,   details |-> ""],
       [reason |-> "NotFound",   isStatusError |-> FALSE, message |-> "missing",   code |-> 0,   details |-> ""],
       [reason |-> "Unknown",    isStatusError |-> FALSE, message |-> "EOF",       code |-> 0,   details |-> ""],
       [reason |-> "Unknown",    isStatusError |-> FALSE, message |-> "stop",      code |-> 0,   details |-> ""] >>

\* the status recorded with a List that did not fail
NoStatus == [reason |-> "", isStatusError |-> FALSE, message |-> "", code |-> 0, details |-> ""]

\* Objects Helper.List may return as its error
ListErrs == 1..8
\* Objects the VisitorFunc may return: its own error, or a not-found
\* StatusError it got from somewhere else
FnErrs == {3, 9}

\* err.Error()
ErrorText(h, e) == IF e.tag = "obj" THEN h[e.id].message ELSE e.text

\* errors.IsResourceExpired, errors.IsBadRequest, errors.IsNotFound
IsResourceExpired(h, e) == e.tag = "obj" /\ h[e.id].reason = "Expired"
IsBadRequest(h, e) == e.tag = "obj" /\ h[e.id].reason = "BadRequest"
IsNotFound(h, e) == e.tag = "obj" /\ h[e.id].reason = "NotFound"

\* the type assertion err.(*errors.StatusError)
IsStatusError(h, e) == e.tag = "obj" /\ h[e.id].isStatusError

(***************************************************************************)
(* Pages.  A page is the runtime.Object List returned; the metadata        *)
(* accessor reads its resource version and continue token, and either      *)
(* read may fail.                                                          *)
(***************************************************************************)
NoList == [Object |-> 0, rv |-> "", cont |-> "", rvErr |-> FALSE, contErr |-> FALSE]

Tokens == {"", "c1", "c2"}

\* the n-th page Helper.List hands to one Visit invocation
Pages(n) == [Object : {n}, rv : {"100"}, cont : Tokens,
             rvErr : BOOLEAN, contErr : BOOLEAN]

\* accessor.ResourceVersion(list) and accessor.Continue(list): <<value, failed>>
ResourceVersion(obj) == IF obj.rvErr THEN <<"", TRUE>> ELSE <<obj.rv, FALSE>>
Continue(obj) == IF obj.contErr THEN <<"", TRUE>> ELSE <<obj.cont, FALSE>>

NoInfo == [Client |-> "", Mapping |-> "", Namespace |-> "", Object |-> 0,
           ResourceVersion |-> ""]

(***************************************************************************)
(* NewSelector                                                             *)
(***************************************************************************)
Selectors == {"", "app=foo"}

NewSelector(client, mapping, namespace, selector, export, includeUninitialized, limitChunks) ==
    [Client |-> client, Mapping |-> mapping, Namespace |-> namespace,
     Selector |-> selector, Export |-> export,
     IncludeUninitialized |-> includeUninitialized, LimitChunks |-> limitChunks]

\* the *meta.RESTMapping of pods
PodsMapping == [Resource |-> "pods", GroupVersion |-> "v1"]

\* Selector.ResourceMapping
ResourceMapping(sel) == sel.Mapping

\* no Watch call yet, and no ResourceMapping call yet
NoWatch == [calls |-> <<>>, out |-> [stream |-> "", err |-> NilErr],
            ret |-> [stream |-> "", err |-> NilErr]]
NoMapping == [Resource |-> "", GroupVersion |-> ""]

\* The state after NewSelector, with the callers and the environment given
Constructed(who, e) ==
    /\ env = e
    /\ callers = who
    /\ \E selector \in Selectors :
          r = NewSelector("client", PodsMapping, "ns", selector, FALSE, FALSE, 500)
    /\ heap = ErrObjects
    /\ newMessage = [c \in Calls |-> ""]
    /\ watched = [c \in Calls |-> NoWatch]
    /\ mapped = [c \in Calls |-> NoMapping]
    /\ pc = [c \in Calls |-> "idle"]
    /\ continueToken = [c \in Calls |-> ""]
    /\ list = [c \in Calls |-> NoList]
    /\ err = [c \in Calls |-> NilErr]
    /\ nextContinueToken = [c \in Calls |-> ""]
    /\ info = [c \in Calls |-> NoInfo]
    /\ ret = [c \in Calls |-> NilErr]
    /\ fetches = [c \in Calls |-> <<>>]
    /\ resps = [c \in Calls |-> <<>>]
    /\ cbs = [c \in Calls |-> <<>>]
    /\ nvisits = [c \in Calls |-> 0]
    /\ results = [c \in Calls |-> <<>>]

\* One caller, and a collaborator that may give any answer
FullEnv ==
    [pages |-> MaxPages, visits |-> MaxVisits, listErrs |-> ListErrs,
     fnErrs |-> FnErrs, accessorFails |-> BOOLEAN]

Init == Constructed({"a"}, FullEnv)

(***************************************************************************)
(* Selector.Visit                                                          *)
(***************************************************************************)
\* var continueToken string
InitialContinueToken == ""

\* A caller enters Visit (again): the locals are fresh.
VisitStart(c) ==
    /\ c \in callers
    /\ pc[c] \in {"idle", "returned"}
    /\ nvisits[c] < env.visits
    /\ nvisits' = [nvisits EXCEPT ![c] = @ + 1]
    /\ pc' = [pc EXCEPT ![c] = "list"]
    /\ continueToken' = [continueToken EXCEPT ![c] = InitialContinueToken]
    /\ list' = [list EXCEPT ![c] = NoList]
    /\ err' = [err EXCEPT ![c] = NilErr]
    /\ nextContinueToken' = [nextContinueToken EXCEPT ![c] = ""]
    /\ info' = [info EXCEPT ![c] = NoInfo]
    /\ newMessage' = [newMessage EXCEPT ![c] = ""]
    /\ ret' = [ret EXCEPT ![c] = NilErr]
    /\ fetches' = [fetches EXCEPT ![c] = <<>>]
    /\ resps' = [resps EXCEPT ![c] = <<>>]
    /\ cbs' = [cbs EXCEPT ![c] = <<>>]
    /\ UNCHANGED <<watched, mapped, env, callers, r, heap, results>>

\* ListRequest that asks for chunks on the first request only
ListRequest_LimitOnce(sel, token) ==
    [Client |-> sel.Client,
     Resource |-> sel.Mapping.Resource,
     Namespace |-> sel.Namespace,
     GroupVersion |-> sel.Mapping.GroupVersion,
     Export |-> sel.Export,
     LabelSelector |-> sel.Selector,
     IncludeUninitialized |-> sel.IncludeUninitialized,
     Limit |-> IF token = "" THEN sel.LimitChunks ELSE 0,
     Continue |-> token]

\* The arguments of NewHelper(r.Client, r.Mapping).List(...)
ListRequest(sel, token) ==
    [Client |-> sel.Client,
     Resource |-> sel.Mapping.Resource,
     Namespace |-> sel.Namespace,
     GroupVersion |-> ResourceMapping(sel).GroupVersion,
     Export |-> sel.Export,
     LabelSelector |-> sel.Selector,
     IncludeUninitialized |-> sel.IncludeUninitialized,
     Limit |-> sel.LimitChunks,
     Continue |-> token]

\* What the collaborator may answer to the n-th List of an invocation
Responses(n) ==
    [list : Pages(n), err : {NilErr}] \cup
    [list : {NoList}, err : {ObjErr(i) : i \in ListErrs}]

\* continueToken read as if it were one variable of the Selector, not a local
\* of each Visit call
CurrentToken_Shared(c) == continueToken["a"]

\* Continue: continueToken -- the local of the caller's own Visit call
CurrentToken(c) == continueToken[c]

\* The answers the collaborator of environment e gives
Answers(e, resp) ==
    IF resp.err = NilErr
    THEN resp.list.rvErr \in e.accessorFails /\ resp.list.contErr \in e.accessorFails
    ELSE resp.err.id \in e.listErrs

\* list, err := NewHelper(r.Client, r.Mapping).List(...)
List(c) ==
    /\ pc[c] = "list"
    /\ Len(fetches[c]) < env.pages
    /\ \E resp \in Responses(Len(fetches[c]) + 1) :
          /\ Answers(env, resp)
          /\ list' = [list EXCEPT ![c] = resp.list]
          /\ err' = [err EXCEPT ![c] = resp.err]
          /\ resps' = [resps EXCEPT ![c] =
                Append(@, [list |-> resp.list, err |-> resp.err,
                           status |-> IF resp.err.tag = "obj"
                                      THEN heap[resp.err.id]
                                      ELSE NoStatus])]
    /\ fetches' = [fetches EXCEPT ![c] = Append(@, ListRequest(r, CurrentToken(c)))]
    /\ pc' = [pc EXCEPT ![c] = "listed"]
    /\ UNCHANGED <<watched, mapped, env, newMessage, callers, r, heap, continueToken, nextContinueToken, info, ret,
                   cbs, nvisits, results>>

\* RewriteMessage that never names the selector
RewriteMessage_NoSelector(sel, msg) ==
    "Unable to list " \o Quote(sel.Mapping.Resource) \o ": " \o msg

\* RewriteMessage that always names the selector
RewriteMessage_AlwaysSelector(sel, msg) ==
    "Unable to find " \o Quote(sel.Mapping.Resource)
    \o " that match the selector " \o Quote(sel.Selector) \o ": " \o msg

\* RewriteMessage that leaves alone a message that already starts with the
\* prefix it would add
RewriteMessage_Idempotent(sel, msg) ==
    LET prefix == IF Len(sel.Selector) = 0
                  THEN "Unable to list " \o Quote(sel.Mapping.Resource) \o ": "
                  ELSE "Unable to find " \o Quote(sel.Mapping.Resource)
                       \o " that match the selector " \o Quote(sel.Selector) \o ": "
    IN  IF Len(msg) >= Len(prefix) /\ SubSeq(msg, 1, Len(prefix)) = prefix
        THEN msg
        ELSE prefix \o msg

\* fmt.Sprintf("Unable to list %q: %v", ...) and
\* fmt.Sprintf("Unable to find %q that match the selector %q: %v", ...)
RewriteMessage(sel, msg) ==
    IF Len(sel.Selector) = 0
    THEN "Unable to list " \o Quote(sel.Mapping.Resource) \o ": " \o msg
    ELSE "Unable to find " \o Quote(sel.Mapping.Resource)
         \o " that match the selector " \o Quote(sel.Selector) \o ": " \o msg

\* VisitError with the expired check dropped and expired errors rewritten
VisitError_RewriteExpired(sel, h, e) ==
    IF IsBadRequest(h, e) \/ IsNotFound(h, e) \/ IsResourceExpired(h, e)
    THEN IF IsStatusError(h, e)
         THEN [ret |-> e,
               heap |-> [h EXCEPT ![e.id].message = RewriteMessage(sel, @)]]
         ELSE [ret |-> Errorf(RewriteMessage(sel, ErrorText(h, e))), heap |-> h]
    ELSE [ret |-> e, heap |-> h]

\* VisitError that drops an error it does not classify
VisitError_Swallow(sel, h, e) ==
    IF IsResourceExpired(h, e)
    THEN [ret |-> e, heap |-> h]
    ELSE IF IsBadRequest(h, e) \/ IsNotFound(h, e)
    THEN IF IsStatusError(h, e)
         THEN [ret |-> e,
               heap |-> [h EXCEPT ![e.id].message = RewriteMessage(sel, @)]]
         ELSE [ret |-> Errorf(RewriteMessage(sel, ErrorText(h, e))), heap |-> h]
    ELSE [ret |-> NilErr, heap |-> h]

\* VisitError that wraps every bad-request or not-found error in a plain error
VisitError_Wrap(sel, h, e) ==
    IF IsResourceExpired(h, e)
    THEN [ret |-> e, heap |-> h]
    ELSE IF IsBadRequest(h, e) \/ IsNotFound(h, e)
    THEN [ret |-> Errorf(RewriteMessage(sel, ErrorText(h, e))), heap |-> h]
    ELSE [ret |-> e, heap |-> h]

\* VisitError that rewrites every error that is not expired
VisitError_RewriteOther(sel, h, e) ==
    IF IsResourceExpired(h, e)
    THEN [ret |-> e, heap |-> h]
    ELSE IF IsStatusError(h, e)
         THEN [ret |-> e,
               heap |-> [h EXCEPT ![e.id].message = RewriteMessage(sel, @)]]
         ELSE [ret |-> Errorf(RewriteMessage(sel, ErrorText(h, e))), heap |-> h]

\* The branch "if err != nil" of Visit: the error Visit returns and the heap
\* it leaves, for the fetch error e.
VisitError(sel, h, e) ==
    IF IsResourceExpired(h, e)
    THEN [ret |-> e, heap |-> h]
    ELSE IF IsBadRequest(h, e) \/ IsNotFound(h, e)
    THEN IF IsStatusError(h, e)
         THEN [ret |-> e,
               heap |-> [h EXCEPT ![e.id].message = RewriteMessage(sel, @)]]
         ELSE [ret |-> Errorf(RewriteMessage(sel, ErrorText(h, e))), heap |-> h]
    ELSE [ret |-> e, heap |-> h]

\* if err != nil { ... }: every branch but the assignment to
\* se.ErrStatus.Message returns at once; for that one the new message is
\* formatted from the message read here and assigned in the next step.
ListErr(c) ==
    /\ pc[c] = "listed"
    /\ err[c] # NilErr
    /\ LET out == VisitError(r, heap, err[c])
       IN  IF out.heap = heap
           THEN /\ ret' = [ret EXCEPT ![c] = out.ret]
                /\ results' = [results EXCEPT ![c] =
                      Append(@, [err |-> out.ret, from |-> "list"])]
                /\ pc' = [pc EXCEPT ![c] = "returned"]
                /\ UNCHANGED newMessage
           ELSE /\ newMessage' = [newMessage EXCEPT ![c] = out.heap[err[c].id].message]
                /\ pc' = [pc EXCEPT ![c] = "rewrite"]
                /\ UNCHANGED <<ret, results>>
    /\ UNCHANGED <<watched, mapped, env, callers, r, heap, continueToken, list, err,
                   nextContinueToken, info, fetches, resps, cbs, nvisits>>

\* se.ErrStatus.Message = fmt.Sprintf(...); return se
WriteMessage(c) ==
    /\ pc[c] = "rewrite"
    /\ heap' = [heap EXCEPT ![err[c].id].message = newMessage[c]]
    /\ ret' = [ret EXCEPT ![c] = err[c]]
    /\ results' = [results EXCEPT ![c] =
          Append(@, [err |-> err[c], from |-> "list"])]
    /\ pc' = [pc EXCEPT ![c] = "returned"]
    /\ UNCHANGED <<watched, mapped, env, callers, r, continueToken, list, err, nextContinueToken,
                   info, newMessage, fetches, resps, cbs, nvisits>>

\* NewInfo that forgets the resource version
NewInfo_NoVersion(sel, obj, resourceVersion) ==
    [Client |-> sel.Client, Mapping |-> sel.Mapping, Namespace |-> sel.Namespace,
     Object |-> obj.Object, ResourceVersion |-> ""]

\* info := &Info{...}
NewInfo(sel, obj, resourceVersion) ==
    [Client |-> sel.Client, Mapping |-> sel.Mapping, Namespace |-> sel.Namespace,
     Object |-> obj.Object, ResourceVersion |-> resourceVersion]

\* CallFn that starts fn without waiting for it ("go fn(info, nil)") and
\* goes on with the loop
CallFn_Async(c) ==
    /\ pc[c] = "listed"
    /\ err[c] = NilErr
    /\ LET resourceVersion == ResourceVersion(list[c])[1]
           i == NewInfo(r, list[c], resourceVersion)
           next == Continue(list[c])[1]
       IN  /\ info' = [info EXCEPT ![c] = i]
           /\ cbs' = [cbs EXCEPT ![c] =
                 Append(@, [info |-> i, err |-> NilErr, done |-> FALSE,
                            result |-> NilErr])]
           /\ nextContinueToken' = [nextContinueToken EXCEPT ![c] = next]
           /\ pc' = [pc EXCEPT ![c] = IF Len(next) = 0 THEN "returned" ELSE "list"]
           /\ continueToken' = [continueToken EXCEPT ![c] = next]
           /\ results' = [results EXCEPT ![c] =
                 IF Len(next) = 0
                 THEN Append(@, [err |-> NilErr, from |-> "end"]) ELSE @]
    /\ UNCHANGED <<watched, mapped, env, newMessage, callers, r, heap, list, err, ret, fetches, resps, nvisits>>

\* CallFn that returns an error when an accessor read fails, instead of
\* calling fn
CallFn_AccessorFatal(c) ==
    /\ pc[c] = "listed"
    /\ err[c] = NilErr
    /\ LET rv == ResourceVersion(list[c])
           next == Continue(list[c])
           i == NewInfo(r, list[c], rv[1])
           failed == rv[2] \/ next[2]
       IN  /\ info' = [info EXCEPT ![c] = IF failed THEN @ ELSE i]
           /\ cbs' = [cbs EXCEPT ![c] =
                 IF failed THEN @
                 ELSE Append(@, [info |-> i, err |-> NilErr, done |-> FALSE,
                                 result |-> NilErr])]
           /\ nextContinueToken' = [nextContinueToken EXCEPT ![c] = next[1]]
           /\ pc' = [pc EXCEPT ![c] = IF failed THEN "returned" ELSE "fn"]
           /\ ret' = [ret EXCEPT ![c] = IF failed THEN Errorf("accessor") ELSE @]
           /\ results' = [results EXCEPT ![c] =
                 IF failed
                 THEN Append(@, [err |-> Errorf("accessor"), from |-> "list"])
                 ELSE @]
    /\ UNCHANGED <<watched, mapped, env, newMessage, callers, r, heap, continueToken, list, err,
                   fetches, resps, nvisits>>

\* The accessor reads, the Info, and the call fn(info, nil)
CallFn(c) ==
    /\ pc[c] = "listed"
    /\ err[c] = NilErr
    /\ LET resourceVersion == ResourceVersion(list[c])[1]
           i == NewInfo(r, list[c], resourceVersion)
       IN  /\ info' = [info EXCEPT ![c] = i]
           /\ cbs' = [cbs EXCEPT ![c] =
                 Append(@, [info |-> i, err |-> NilErr, done |-> FALSE,
                            result |-> NilErr])]
    /\ nextContinueToken' = [nextContinueToken EXCEPT ![c] = Continue(list[c])[1]]
    /\ pc' = [pc EXCEPT ![c] = "fn"]
    /\ UNCHANGED <<watched, mapped, env, newMessage, callers, r, heap, continueToken, list, err, ret, fetches, resps,
                   nvisits, results>>

\* AfterFn with the test of the continue token inverted
AfterFn_Inverted(fnErr, next, token) ==
    IF fnErr # NilErr
    THEN [pc |-> "returned", ret |-> fnErr, continueToken |-> token]
    ELSE IF Len(next) # 0
    THEN [pc |-> "returned", ret |-> NilErr, continueToken |-> token]
    ELSE [pc |-> "list", ret |-> NilErr, continueToken |-> next]

\* AfterFn that tests the continue token before the callback's error
AfterFn_CursorFirst(fnErr, next, token) ==
    IF Len(next) = 0
    THEN [pc |-> "returned", ret |-> NilErr, continueToken |-> token]
    ELSE IF fnErr # NilErr
    THEN [pc |-> "returned", ret |-> fnErr, continueToken |-> token]
    ELSE [pc |-> "list", ret |-> NilErr, continueToken |-> next]

\* AfterFn that loops without taking over the next continue token
AfterFn_StaleToken(fnErr, next, token) ==
    IF fnErr # NilErr
    THEN [pc |-> "returned", ret |-> fnErr, continueToken |-> token]
    ELSE IF Len(next) = 0
    THEN [pc |-> "returned", ret |-> NilErr, continueToken |-> token]
    ELSE [pc |-> "list", ret |-> NilErr, continueToken |-> token]

\* AfterFn that gives up when the collaborator repeats the continue token
AfterFn_RepeatStop(fnErr, next, token) ==
    IF fnErr # NilErr
    THEN [pc |-> "returned", ret |-> fnErr, continueToken |-> token]
    ELSE IF Len(next) = 0 \/ next = token
    THEN [pc |-> "returned", ret |-> NilErr, continueToken |-> token]
    ELSE [pc |-> "list", ret |-> NilErr, continueToken |-> next]

\* What Visit does once fn has returned fnErr: return fnErr, return nil, or
\* go round the loop with the next token.
AfterFn(fnErr, next, token) ==
    IF fnErr # NilErr
    THEN [pc |-> "returned", ret |-> fnErr, continueToken |-> token]
    ELSE IF Len(next) = 0
    THEN [pc |-> "returned", ret |-> NilErr, continueToken |-> token]
    ELSE [pc |-> "list", ret |-> NilErr, continueToken |-> next]

\* fn returns; if err != nil return err; if len(nextContinueToken) == 0
\* return nil; continueToken = nextContinueToken
FnReturn(c) ==
    /\ pc[c] = "fn"
    /\ \E fnErr \in {NilErr} \cup {ObjErr(i) : i \in FnErrs \cap env.fnErrs} :
          LET out == AfterFn(fnErr, nextContinueToken[c], continueToken[c])
          IN  /\ cbs' = [cbs EXCEPT ![c][Len(cbs[c])].done = TRUE,
                                    ![c][Len(cbs[c])].result = fnErr]
              /\ pc' = [pc EXCEPT ![c] = out.pc]
              /\ ret' = [ret EXCEPT ![c] = out.ret]
              /\ continueToken' = [continueToken EXCEPT ![c] = out.continueToken]
              /\ results' = [results EXCEPT ![c] =
                    IF out.pc = "returned"
                    THEN Append(@, [err |-> out.ret,
                                    from |-> IF fnErr # NilErr THEN "fn" ELSE "end"])
                    ELSE @]
    /\ UNCHANGED <<watched, mapped, env, newMessage, callers, r, heap, list, err, nextContinueToken, info, fetches,
                   resps, nvisits>>

(***************************************************************************)
(* Selector.Watch and Selector.ResourceMapping                             *)
(***************************************************************************)
\* The arguments of NewHelper(r.Client, r.Mapping).Watch(...)
WatchRequest(sel, resourceVersion) ==
    [Client |-> sel.Client,
     Resource |-> sel.Mapping.Resource,
     Namespace |-> sel.Namespace,
     ResourceVersion |-> resourceVersion,
     GroupVersion |-> ResourceMapping(sel).GroupVersion,
     LabelSelector |-> sel.Selector]

\* The resource versions a caller passes to Watch
ResourceVersions == {"", "100"}

\* What the collaborator of environment e may answer to Watch
WatchAnswers(e) ==
    [stream : {"w1"}, err : {NilErr}] \cup
    [stream : {""}, err : {ObjErr(i) : i \in e.listErrs}]

\* Watch that treats the error as Visit treats a List error
Watch_Rewrite(c) ==
    /\ c \in callers
    /\ pc[c] \in {"idle", "returned"}
    /\ \E resourceVersion \in ResourceVersions : \E out \in WatchAnswers(env) :
          LET v == IF out.err = NilErr
                   THEN [ret |-> NilErr, heap |-> heap]
                   ELSE VisitError(r, heap, out.err)
          IN  /\ watched' = [watched EXCEPT ![c] =
                    [calls |-> <<WatchRequest(r, resourceVersion)>>,
                     out |-> out,
                     ret |-> [stream |-> out.stream, err |-> v.ret]]]
              /\ heap' = v.heap
    /\ UNCHANGED <<mapped, env, callers, r, pc, continueToken, list, err,
                   nextContinueToken, info, newMessage, ret, fetches, resps, cbs,
                   nvisits, results>>

\* return NewHelper(r.Client, r.Mapping).Watch(r.Namespace, resourceVersion, ...)
Watch(c) ==
    /\ c \in callers
    /\ pc[c] \in {"idle", "returned"}
    /\ \E resourceVersion \in ResourceVersions : \E out \in WatchAnswers(env) :
          watched' = [watched EXCEPT ![c] =
              [calls |-> <<WatchRequest(r, resourceVersion)>>,
               out |-> out,
               ret |-> out]]
    /\ UNCHANGED <<mapped, env, callers, r, heap, pc, continueToken, list, err,
                   nextContinueToken, info, newMessage, ret, fetches, resps, cbs,
                   nvisits, results>>

\* A caller calls ResourceMapping: return r.Mapping
ResourceMappingCall(c) ==
    /\ c \in callers
    /\ pc[c] \in {"idle", "returned"}
    /\ mapped' = [mapped EXCEPT ![c] = ResourceMapping(r)]
    /\ UNCHANGED <<watched, env, callers, r, heap, pc, continueToken, list, err,
                   nextContinueToken, info, newMessage, ret, fetches, resps, cbs,
                   nvisits, results>>

Next ==
    \E c \in Calls :
        \/ VisitStart(c)
        \/ List(c)
        \/ ListErr(c)
        \/ WriteMessage(c)
        \/ CallFn(c)
        \/ FnReturn(c)

Spec == Init /\ [][Next]_vars

\* Two callers in Visit at the same time, and a collaborator that fails with
\* the bad-request StatusError or a plain error and may hand the same error
\* object to both
ConcEnv ==
    [pages |-> ConcMaxPages, visits |-> ConcMaxVisits, listErrs |-> {2, 8},
     fnErrs |-> {9}, accessorFails |-> {FALSE}]

InitConc == Constructed({"a", "b"}, ConcEnv)

SpecConc == InitConc /\ [][Next]_vars

\* The steps of a Visit call once it has been entered
VisitStep(c) ==
    \/ List(c)
    \/ ListErr(c)
    \/ WriteMessage(c)
    \/ CallFn(c)
    \/ FnReturn(c)

\* One caller; every List and every callback returns, and the goroutine in
\* Visit keeps running
LiveEnv ==
    [pages |-> LiveMaxPages, visits |-> LiveMaxVisits, listErrs |-> {1, 2, 8},
     fnErrs |-> {9}, accessorFails |-> BOOLEAN]

InitLive == Constructed({"a"}, LiveEnv)

SpecLive == InitLive /\ [][Next]_vars /\ \A c \in Calls : WF_vars(VisitStep(c))

\* One caller that calls Visit, Watch and ResourceMapping in any order, and
\* a collaborator that fails with a bad-request error or a plain error
ApiEnv ==
    [pages |-> ApiMaxPages, visits |-> ApiMaxVisits, listErrs |-> {2, 6, 8},
     fnErrs |-> {9}, accessorFails |-> {FALSE}]

InitApi == Constructed({"a"}, ApiEnv)

NextApi ==
    \E c \in Calls :
        \/ VisitStart(c)
        \/ List(c)
        \/ ListErr(c)
        \/ WriteMessage(c)
        \/ CallFn(c)
        \/ FnReturn(c)
        \/ Watch(c)
        \/ ResourceMappingCall(c)

SpecApi == InitApi /\ [][NextApi]_vars

(***************************************************************************)
(* The record of one Visit invocation, as the properties read it.          *)
(***************************************************************************)
\* the continue token the accessor reads from a page
Cursor(page) == Continue(page)[1]

\* number of List calls, of List answers and of callback invocations so far
NFetches(c) == Len(fetches[c])
NCallbacks(c) == Len(cbs[c])
NCompleted(c) == Cardinality({i \in 1..Len(cbs[c]) : cbs[c][i].done})

\* no List of the invocation has failed
AllPages(c) == \A i \in 1..Len(resps[c]) : resps[c][i].err = NilErr
\* every callback of the invocation has returned nil
AllFnNil(c) == \A i \in 1..Len(cbs[c]) : cbs[c][i].done /\ cbs[c][i].result = NilErr

\* the i-th List of the invocation failed
Failed(c, i) == resps[c][i].err # NilErr

(***************************************************************************)
(* C1  Full traversal.  A Visit whose fetches all succeeded and whose      *)
(* callbacks all returned nil returns exactly at the first page with an    *)
(* empty continue token: with N pages, the first N-1 carrying a non-empty  *)
(* token and the N-th an empty one, it has made N fetches and N callback   *)
(* invocations, the i-th callback got the i-th page, and it returns nil.   *)
(***************************************************************************)
C1_FullTraversal ==
    \A c \in Calls :
        (pc[c] = "returned" /\ AllPages(c) /\ AllFnNil(c)) =>
            LET N == Len(resps[c])
            IN  /\ N >= 1
                /\ \A i \in 1..(N - 1) : Cursor(resps[c][i].list) # ""
                /\ Cursor(resps[c][N].list) = ""
                /\ NFetches(c) = N
                /\ NCallbacks(c) = N
                /\ \A i \in 1..N : cbs[c][i].info.Object = resps[c][i].list.Object
                /\ ret[c] = NilErr

\* a three-page traversal has returned nil
C1_Witness ==
    \E c \in Calls :
        /\ pc[c] = "returned" /\ AllPages(c) /\ AllFnNil(c)
        /\ Len(resps[c]) = 3 /\ NCallbacks(c) = 3 /\ ret[c] = NilErr
        /\ resps[c][1].list.cont = "c1" /\ resps[c][2].list.cont = "c2"

(***************************************************************************)
(* C2  Early abort.  Once a callback has returned a non-nil error, Visit   *)
(* has returned that very error, the callback was the last one, and no     *)
(* List was issued after the one that produced its page -- also when that  *)
(* page carried an empty continue token.                                   *)
(***************************************************************************)
C2_EarlyAbort ==
    \A c \in Calls : \A n \in 1..Len(cbs[c]) :
        (cbs[c][n].done /\ cbs[c][n].result # NilErr) =>
            /\ pc[c] = "returned"
            /\ ret[c] = cbs[c][n].result
            /\ n = NCallbacks(c)
            /\ NFetches(c) = n

\* the callback failed on a second page, which was the last page
C2_Witness ==
    \E c \in Calls :
        /\ pc[c] = "returned" /\ NCallbacks(c) = 2
        /\ cbs[c][2].done /\ cbs[c][2].result = ObjErr(9)
        /\ Cursor(resps[c][2].list) = ""
        /\ ret[c] = ObjErr(9)

(***************************************************************************)
(* C3  Strict alternation.  In every state the List calls issued exceed    *)
(* the callbacks completed by 0 or 1, no page gets more than one callback, *)
(* and a List is only about to be issued when every callback so far has    *)
(* completed.                                                              *)
(***************************************************************************)
C3_Alternation ==
    \A c \in Calls :
        /\ NFetches(c) - NCompleted(c) \in {0, 1}
        /\ NCallbacks(c) <= NFetches(c)
        /\ NCallbacks(c) - NCompleted(c) \in {0, 1}
        /\ pc[c] = "list" => NCompleted(c) = NFetches(c)
        /\ pc[c] = "fn" => NCallbacks(c) = NFetches(c) /\ NCompleted(c) = NFetches(c) - 1

\* the third List is about to be issued, two callbacks have completed
C3_Witness ==
    \E c \in Calls : pc[c] = "list" /\ NFetches(c) = 2 /\ NCompleted(c) = 2

(***************************************************************************)
(* C4  Cursor threading.  The first List of a Visit carries the empty      *)
(* continue token; every later List carries the token read from the page   *)
(* before it, which is not empty.                                          *)
(***************************************************************************)
C4_CursorThreading ==
    \A c \in Calls : \A i \in 1..Len(fetches[c]) :
        IF i = 1
        THEN fetches[c][i].Continue = ""
        ELSE /\ resps[c][i - 1].err = NilErr
             /\ Cursor(resps[c][i - 1].list) # ""
             /\ fetches[c][i].Continue = Cursor(resps[c][i - 1].list)

\* three fetches carrying "", "c2" and "c1"
C4_Witness ==
    \E c \in Calls :
        /\ Len(fetches[c]) = 3
        /\ fetches[c][2].Continue = "c2"
        /\ fetches[c][3].Continue = "c1"

(***************************************************************************)
(* C5  Expired propagation.  A List that failed with a resource-expired    *)
(* error is the last List of the Visit and got no callback; once Visit has *)
(* returned, it returned that same error, whose object is as the           *)
(* collaborator handed it over.  On the first page no callback ran at all. *)
(***************************************************************************)
C5_ExpiredPropagation ==
    \A c \in Calls : \A i \in 1..Len(resps[c]) :
        (Failed(c, i) /\ resps[c][i].status.reason = "Expired") =>
            /\ i = NFetches(c)
            /\ NCallbacks(c) = i - 1
            /\ pc[c] \in {"listed", "returned"}
            /\ pc[c] = "returned" =>
                  /\ ret[c] = resps[c][i].err
                  /\ heap[ret[c].id] = resps[c][i].status

\* the first List failed with the expired StatusError and Visit returned it
C5_Witness ==
    \E c \in Calls :
        /\ pc[c] = "returned" /\ Len(resps[c]) = 1
        /\ resps[c][1].err = ObjErr(1)
        /\ ret[c] = ObjErr(1) /\ NCallbacks(c) = 0

(***************************************************************************)
(* C6  No swallow, no retry.  A failed List is the last List of the Visit, *)
(* no callback follows it, and Visit then returns a non-nil error.  Visit  *)
(* returns nil only if its last List succeeded with an empty continue      *)
(* token and every callback returned nil.                                  *)
(***************************************************************************)
C6_NoSwallowNoRetry ==
    \A c \in Calls :
        /\ \A i \in 1..Len(resps[c]) :
              Failed(c, i) =>
                  /\ i = NFetches(c)
                  /\ NCallbacks(c) = i - 1
                  /\ pc[c] \in {"listed", "rewrite", "returned"}
                  /\ pc[c] = "returned" => ret[c] # NilErr
        /\ (pc[c] = "returned" /\ ret[c] = NilErr) =>
              /\ Len(resps[c]) >= 1
              /\ ~Failed(c, Len(resps[c]))
              /\ Cursor(resps[c][Len(resps[c])].list) = ""
              /\ AllFnNil(c)

\* the second List failed with a plain error and Visit returned an error
C6_Witness ==
    \E c \in Calls :
        /\ pc[c] = "returned" /\ Len(resps[c]) = 2
        /\ resps[c][2].err = ObjErr(8)
        /\ NCallbacks(c) = 1 /\ ret[c] # NilErr

(***************************************************************************)
(* The message rewrite.                                                    *)
(***************************************************************************)
\* Visit has returned after its last List failed with a bad-request or
\* not-found error
ReturnedRewritten(c) ==
    /\ pc[c] = "returned"
    /\ Len(resps[c]) >= 1
    /\ Failed(c, Len(resps[c]))
    /\ resps[c][Len(resps[c])].status.reason \in {"BadRequest", "NotFound"}

\* the failed List's error, and its object as the collaborator handed it over
LastErr(c) == resps[c][Len(resps[c])].err
LastStatus(c) == resps[c][Len(resps[c])].status

\* the text of the error Visit returned
ReturnedText(c) == ErrorText(heap, ret[c])

\* s ends with suffix
EndsWith(s, suffix) ==
    /\ Len(suffix) <= Len(s)
    /\ SubSeq(s, Len(s) - Len(suffix) + 1, Len(s)) = suffix

(***************************************************************************)
(* C7  Message rewrite with selector, as the specification words it: with  *)
(* selector "app=foo" and resource "pods", the returned message contains   *)
(* `unable to find "pods" that match the selector "app=foo"` and ends with *)
(* the original message.                                                   *)
(***************************************************************************)
C7_Original ==
    \A c \in Calls :
        (ReturnedRewritten(c) /\ r.Selector = "app=foo" /\ r.Mapping.Resource = "pods") =>
            /\ Contains(ReturnedText(c),
                        "unable to find \"pods\" that match the selector \"app=foo\"")
            /\ EndsWith(ReturnedText(c), LastStatus(c).message)

(***************************************************************************)
(* C7  Message rewrite with selector, amended: the returned message is     *)
(* `Unable to find "pods" that match the selector "app=foo": ` (capital U) *)
(* followed by the original message.                                       *)
(***************************************************************************)
C7_RewriteWithSelector ==
    \A c \in Calls :
        (ReturnedRewritten(c) /\ r.Selector = "app=foo" /\ r.Mapping.Resource = "pods") =>
            ReturnedText(c) =
                "Unable to find \"pods\" that match the selector \"app=foo\": "
                \o LastStatus(c).message

\* a not-found StatusError came back on the first List of a Selector with
\* selector "app=foo"
C7_Witness ==
    \E c \in Calls :
        /\ ReturnedRewritten(c) /\ r.Selector = "app=foo"
        /\ LastErr(c) = ObjErr(3) /\ LastStatus(c).message = "no kind"
        /\ ReturnedText(c) =
              "Unable to find \"pods\" that match the selector \"app=foo\": no kind"

(***************************************************************************)
(* C8  Message rewrite without selector, as the specification words it:    *)
(* with an empty selector and resource "pods", the returned message        *)
(* contains `unable to list "pods"`, ends with the original message and    *)
(* does not speak of a selector.                                           *)
(***************************************************************************)
C8_Original ==
    \A c \in Calls :
        (ReturnedRewritten(c) /\ r.Selector = "" /\ r.Mapping.Resource = "pods") =>
            /\ Contains(ReturnedText(c), "unable to list \"pods\"")
            /\ EndsWith(ReturnedText(c), LastStatus(c).message)
            /\ ~Contains(ReturnedText(c), "selector")

(***************************************************************************)
(* C8  Message rewrite without selector, amended: the returned message is  *)
(* `Unable to list "pods": ` (capital U) followed by the original message, *)
(* and does not speak of a selector.                                       *)
(***************************************************************************)
C8_RewriteWithoutSelector ==
    \A c \in Calls :
        (ReturnedRewritten(c) /\ r.Selector = "" /\ r.Mapping.Resource = "pods") =>
            /\ ReturnedText(c) = "Unable to list \"pods\": " \o LastStatus(c).message
            /\ ~Contains(ReturnedText(c), "selector")

\* a bad-request error that is no StatusError came back on the second List
\* of a Selector without selector
C8_Witness ==
    \E c \in Calls :
        /\ ReturnedRewritten(c) /\ r.Selector = ""
        /\ Len(resps[c]) = 2 /\ LastErr(c) = ObjErr(6)
        /\ ReturnedText(c) = "Unable to list \"pods\": bad"

\* the message Visit makes of the original message orig
Rewritten(orig) ==
    IF r.Selector = ""
    THEN "Unable to list \"pods\": " \o orig
    ELSE "Unable to find \"pods\" that match the selector \"" \o r.Selector
         \o "\": " \o orig

(***************************************************************************)
(* C9  Structured status preserved.  For a bad-request or not-found        *)
(* StatusError Visit returns the same object, with the rewritten message   *)
(* and every other field as before; for a bad-request or not-found error   *)
(* that is no StatusError it returns a new plain error with the rewritten  *)
(* message as its text, and leaves the original alone.                     *)
(***************************************************************************)
C9_StatusPreserved ==
    \A c \in Calls :
        ReturnedRewritten(c) =>
            IF LastStatus(c).isStatusError
            THEN /\ ret[c] = LastErr(c)
                 /\ heap[ret[c].id] =
                       [LastStatus(c) EXCEPT !.message = Rewritten(@)]
            ELSE /\ ret[c] = Errorf(Rewritten(LastStatus(c).message))
                 /\ heap[LastErr(c).id] = LastStatus(c)

\* the bad-request StatusError came back with code 400 and a new message
C9_Witness ==
    \E c \in Calls :
        /\ ReturnedRewritten(c) /\ LastErr(c) = ObjErr(2)
        /\ ret[c] = ObjErr(2)
        /\ heap[2].code = 400 /\ heap[2].reason = "BadRequest"
        /\ heap[2].message # LastStatus(c).message

(***************************************************************************)
(* C10  Other errors pass through.  When the last List failed with an      *)
(* error that is neither expired, bad-request nor not-found, Visit returns *)
(* that same error and its object is as the collaborator handed it over.   *)
(***************************************************************************)
C10_OtherPassThrough ==
    \A c \in Calls :
        (/\ pc[c] = "returned"
         /\ Len(resps[c]) >= 1
         /\ Failed(c, Len(resps[c]))
         /\ LastStatus(c).reason \notin {"Expired", "BadRequest", "NotFound"}) =>
            /\ ret[c] = LastErr(c)
            /\ heap[ret[c].id] = LastStatus(c)

\* the timeout StatusError came back and Visit returned it as it was
C10_Witness ==
    \E c \in Calls :
        /\ pc[c] = "returned" /\ Len(resps[c]) >= 1
        /\ LastErr(c) = ObjErr(4) /\ ret[c] = ObjErr(4)
        /\ heap[4].message = "timeout"

(***************************************************************************)
(* C13  One envelope per successful fetch.  In every state the callback    *)
(* invocations of a Visit are as many as its successful fetches already    *)
(* processed (a page that List has just returned is not processed yet), no *)
(* failed fetch has a callback, and the i-th callback got a nil error and  *)
(* an Info with the Selector's client, mapping and namespace and the       *)
(* object and resource version of the i-th page.                           *)
(***************************************************************************)
NSuccessful(c) == Cardinality({i \in 1..Len(resps[c]) : ~Failed(c, i)})

C13_OneEnvelopePerFetch ==
    \A c \in Calls :
        /\ NCallbacks(c) =
              NSuccessful(c) - (IF pc[c] = "listed" /\ err[c] = NilErr THEN 1 ELSE 0)
        /\ \A i \in 1..NCallbacks(c) :
              /\ ~Failed(c, i)
              /\ cbs[c][i].err = NilErr
              /\ cbs[c][i].info.Client = r.Client
              /\ cbs[c][i].info.Mapping = r.Mapping
              /\ cbs[c][i].info.Namespace = r.Namespace
              /\ cbs[c][i].info.Object = resps[c][i].list.Object
              /\ cbs[c][i].info.ResourceVersion = ResourceVersion(resps[c][i].list)[1]

\* two pages got their callback, with resource version "100", and the third
\* List failed
C13_Witness ==
    \E c \in Calls :
        /\ pc[c] = "returned" /\ Len(resps[c]) = 3 /\ Failed(c, 3)
        /\ NCallbacks(c) = 2
        /\ cbs[c][1].info.ResourceVersion = "100"
        /\ cbs[c][2].info.Object = 2

(***************************************************************************)
(* C14  Accessor failures are tolerated.  A page whose resource version or *)
(* continue token the accessor fails to read still gets its callback, with *)
(* the value the accessor returned; Visit then returns what the callback   *)
(* returned, never the accessor's failure; and when the continue token     *)
(* came back empty and the callback returned nil, Visit returns nil with   *)
(* that page as its last, whatever token the page held.                    *)
(***************************************************************************)
C14_AccessorTolerated ==
    \A c \in Calls : \A i \in 1..Len(resps[c]) :
        LET page == resps[c][i].list
        IN  (~Failed(c, i) /\ (page.rvErr \/ page.contErr)) =>
               /\ i <= NCallbacks(c) \/ (i = Len(resps[c]) /\ pc[c] = "listed")
               /\ i <= NCallbacks(c) =>
                     /\ cbs[c][i].info.Object = page.Object
                     /\ cbs[c][i].info.ResourceVersion = ResourceVersion(page)[1]
               /\ (pc[c] = "returned" /\ i = Len(resps[c])) =>
                     /\ i = NCallbacks(c)
                     /\ ret[c] = cbs[c][i].result
               /\ (/\ i <= NCallbacks(c)
                   /\ cbs[c][i].done /\ cbs[c][i].result = NilErr
                   /\ Continue(page)[2] /\ Continue(page)[1] = "") =>
                     /\ pc[c] = "returned"
                     /\ ret[c] = NilErr
                     /\ i = Len(resps[c])

\* the token "c1" of the first page could not be read: Visit returned nil
\* after one callback, which got an empty resource version
C14_Witness ==
    \E c \in Calls :
        /\ pc[c] = "returned" /\ ret[c] = NilErr
        /\ Len(resps[c]) = 1 /\ NCallbacks(c) = 1
        /\ resps[c][1].list.contErr /\ resps[c][1].list.cont = "c1"
        /\ resps[c][1].list.rvErr /\ cbs[c][1].info.ResourceVersion = ""

(***************************************************************************)
(* C17  In-place rewrite accumulates.  When k Visit calls, one after the   *)
(* other, ended with the same bad-request or not-found StatusError object  *)
(* from List, the object's message is the original one with k prefixes in  *)
(* front, and every reference to the object that an earlier call returned  *)
(* reads that message.                                                     *)
(***************************************************************************)
\* the original message under k prefixes
RECURSIVE Stacked(_, _)
Stacked(k, orig) == IF k = 0 THEN orig ELSE Rewritten(Stacked(k - 1, orig))

\* the Visit calls that have returned the List error object i
Handed(i) ==
    Cardinality(UNION {{<<c, j>> : j \in {k \in 1..Len(results[c]) :
                           results[c][k] = [err |-> ObjErr(i), from |-> "list"]}} :
                       c \in Calls})

C17_RewriteAccumulates ==
    \A i \in {2, 3} :
        /\ heap[i].message = Stacked(Handed(i), ErrObjects[i].message)
        /\ \A c \in Calls : \A j \in 1..Len(results[c]) :
              results[c][j] = [err |-> ObjErr(i), from |-> "list"] =>
                  ErrorText(heap, results[c][j].err) =
                      Stacked(Handed(i), ErrObjects[i].message)

\* two calls returned the bad-request StatusError: two prefixes
C17_Witness ==
    /\ r.Selector = ""
    /\ Handed(2) = 2
    /\ Len(results["a"]) = 2
    /\ ErrorText(heap, results["a"][1].err) =
          "Unable to list \"pods\": Unable to list \"pods\": bad field"

(***************************************************************************)
(* C11  Watch delegation.  A call of Watch makes one call of the           *)
(* collaborator's Watch, with the resource version it was given and the    *)
(* Selector's namespace, group/version and label selector; it returns the  *)
(* stream and the error the collaborator returned; it issues no List and   *)
(* leaves every error object as it is, a bad-request or not-found one too. *)
(***************************************************************************)
C11_WatchDelegation ==
    [][\A c \in Calls :
          watched'[c] # watched[c] =>
              /\ Len(watched'[c].calls) = 1
              /\ \E rv \in ResourceVersions :
                    watched'[c].calls[1] =
                        [Client |-> "client", Resource |-> "pods",
                         Namespace |-> "ns", ResourceVersion |-> rv,
                         GroupVersion |-> "v1", LabelSelector |-> r.Selector]
              /\ watched'[c].ret = watched'[c].out
              /\ heap' = heap
              /\ fetches' = fetches /\ resps' = resps /\ cbs' = cbs
              /\ pc' = pc /\ ret' = ret]_vars

\* Watch("100") got the bad-request StatusError and returned it, its message
\* as it was
C11_Witness ==
    \E c \in Calls :
        /\ Len(watched[c].calls) = 1
        /\ watched[c].calls[1].ResourceVersion = "100"
        /\ watched[c].ret.err = ObjErr(2)
        /\ heap[2].message = "bad field"

(***************************************************************************)
(* C15  Fixed request options.  Every List of a Visit carries the          *)
(* Selector's namespace, group/version, export flag, label selector,       *)
(* include-uninitialized flag and chunk limit, the values NewSelector got; *)
(* and no step of Visit, Watch or ResourceMapping changes a field of the   *)
(* Selector.                                                               *)
(***************************************************************************)
C15_FixedOptions ==
    /\ [](\A c \in Calls : \A i \in 1..Len(fetches[c]) :
             /\ fetches[c][i].Namespace = "ns"
             /\ fetches[c][i].GroupVersion = "v1"
             /\ fetches[c][i].Export = FALSE
             /\ fetches[c][i].IncludeUninitialized = FALSE
             /\ fetches[c][i].Limit = 500
             /\ fetches[c][i].LabelSelector = r.Selector
             /\ fetches[c][i].Namespace = r.Namespace
             /\ fetches[c][i].GroupVersion = r.Mapping.GroupVersion
             /\ fetches[c][i].Export = r.Export
             /\ fetches[c][i].IncludeUninitialized = r.IncludeUninitialized
             /\ fetches[c][i].Limit = r.LimitChunks)
    /\ [][r' = r]_vars

\* after a Watch and a ResourceMapping call, a Visit has issued two Lists
\* that differ in the continue token
C15_Witness ==
    \E c \in Calls :
        /\ Len(fetches[c]) = 2
        /\ fetches[c][1].Continue # fetches[c][2].Continue
        /\ fetches[c][2].Limit = 500
        /\ Len(watched[c].calls) = 1
        /\ mapped[c] = r.Mapping

(***************************************************************************)
(* Two Visit calls at the same time.                                       *)
(***************************************************************************)
\* The fetches and callbacks of call c are those of a call running alone:
\* its own tokens threaded, one callback per page with that page, in turn.
OwnSequence(c) ==
    /\ \A i \in 1..Len(fetches[c]) :
          fetches[c][i].Continue =
              IF i = 1 THEN "" ELSE Cursor(resps[c][i - 1].list)
    /\ NFetches(c) - NCompleted(c) \in {0, 1}
    /\ NCallbacks(c) <= NFetches(c)
    /\ \A i \in 1..NCallbacks(c) :
          /\ ~Failed(c, i)
          /\ cbs[c][i].info.Object = resps[c][i].list.Object

\* The error value call c returned is the one a call running alone returns
\* for the answers and callback results c got.
OwnResult(c) ==
    pc[c] = "returned" =>
        LET n == Len(resps[c])
        IN  IF Failed(c, n)
            THEN IF LastStatus(c).reason \in {"BadRequest", "NotFound"}
                      /\ ~LastStatus(c).isStatusError
                 THEN ret[c] = Errorf(Rewritten(LastStatus(c).message))
                 ELSE ret[c] = LastErr(c)
            ELSE /\ NCallbacks(c) = n
                 /\ ret[c] = cbs[c][n].result
                 /\ ret[c] = NilErr => Cursor(resps[c][n].list) = ""

\* The text of the error call c returned is the one a call running alone
\* returns.
OwnText(c) ==
    (pc[c] = "returned" /\ Failed(c, Len(resps[c]))) =>
        ReturnedText(c) =
            IF LastStatus(c).reason \in {"BadRequest", "NotFound"}
            THEN Rewritten(LastStatus(c).message)
            ELSE LastStatus(c).message

\* List handed the error object of c's last List to another call as well
HandedToOther(c) ==
    \E d \in Calls \ {c} :
        \/ \E i \in 1..Len(resps[d]) : resps[d][i].err = LastErr(c)
        \/ \E j \in 1..Len(results[d]) :
              results[d][j] = [err |-> LastErr(c), from |-> "list"]

(***************************************************************************)
(* C12  Concurrent Visit independence, as the specification words it:      *)
(* under every interleaving each call's fetches, callbacks and result,     *)
(* the text of a returned error included, are those of a call running      *)
(* alone.                                                                  *)
(***************************************************************************)
C12_Original ==
    \A c \in Calls : OwnSequence(c) /\ OwnResult(c) /\ OwnText(c)

(***************************************************************************)
(* C12  Concurrent Visit independence, amended: under every interleaving   *)
(* each call threads its own tokens, its fetches, callbacks and returned   *)
(* error value are those of a call running alone, and no step changes a    *)
(* field of the Selector; the text of the returned error is that of a call *)
(* running alone unless the error is a bad-request or not-found            *)
(* StatusError object that the collaborator handed to the other call too.  *)
(***************************************************************************)
C12_ConcurrentIndependence ==
    /\ [](\A c \in Calls :
             /\ OwnSequence(c)
             /\ OwnResult(c)
             /\ (pc[c] = "returned" /\ Failed(c, Len(resps[c]))
                 /\ LastStatus(c).isStatusError
                 /\ LastStatus(c).reason \in {"BadRequest", "NotFound"}
                 /\ HandedToOther(c)) \/ OwnText(c))
    /\ [][r' = r]_vars

\* both calls are past their first page, with different tokens, and "b" has
\* fetched with its own
C12_Witness ==
    /\ Len(fetches["a"]) = 2 /\ Len(fetches["b"]) = 2
    /\ fetches["a"][2].Continue = "c1"
    /\ fetches["b"][2].Continue = "c2"
    /\ continueToken["a"] # continueToken["b"]

(***************************************************************************)
(* C16  Termination.  With every List and every callback returning, a      *)
(* Visit call returns only after a List failed, a callback returned an     *)
(* error or a page came with an empty continue token, and once one of      *)
(* these has happened it does return; there is no other way out of the     *)
(* loop: a call that has met none of them goes on to the next List, up to  *)
(* the model's limit of pages, also when the collaborator repeats a token. *)
(***************************************************************************)
\* the call is inside Visit
InVisit(c) == pc[c] \in {"list", "listed", "rewrite", "fn"}

\* a List failed, a callback returned an error, or a page had an empty token
StopCause(c) ==
    /\ Len(resps[c]) >= 1
    /\ \/ Failed(c, Len(resps[c]))
       \/ Cursor(resps[c][Len(resps[c])].list) = ""
       \/ \E i \in 1..Len(cbs[c]) : cbs[c][i].done /\ cbs[c][i].result # NilErr

\* the model has stopped the call before its next List
AtPageLimit(c) == pc[c] = "list" /\ NFetches(c) = env.pages

C16_Termination ==
    \A c \in Calls :
        /\ [](pc[c] = "returned" => StopCause(c))
        /\ (InVisit(c) /\ StopCause(c)) ~> (pc[c] = "returned")
        /\ InVisit(c) ~> (pc[c] = "returned" \/ AtPageLimit(c))
        /\ [](AtPageLimit(c) => ~StopCause(c))

\* the collaborator answered every List with the token "c1" and the
\* callback with nil: the call is about to issue one more List
C16_Witness ==
    \E c \in Calls :
        /\ AtPageLimit(c)
        /\ \A i \in 1..Len(resps[c]) : ~Failed(c, i) /\ Cursor(resps[c][i].list) = "c1"
        /\ Len(resps[c]) >= 3
        /\ AllFnNil(c)
====
